---- MODULE Spec2Model ----
(***************************************************************************)
(* Chatbot: the conversation controller (App component, in its two         *)
(* variants: local rule-based responder and remote LLM provider) and the   *)
(* provider gateway (POST /api/chat).                                      *)
(*                                                                         *)
(* A text is a sequence of atoms.  An atom is one character, or a literal  *)
(* of the source that is never inspected character by character (such as   *)
(* "Request failed").  Whitespace is always a one-character atom, so that  *)
(* trim() works on the sequence as it does on the string.                  *)
(***************************************************************************)
EXTENDS Integers, Sequences, FiniteSets, TLC

VARIABLES
  variant,     \* which App is mounted: "llm" or "local"
  messages,    \* useState messages: sequence of [id, role, text]
  input,       \* useState input: the composer text
  isTyping,    \* useState isTyping: the pending indicator
  provider,    \* useState provider
  nextId,      \* useRef nextId.current
  comps,       \* every reply computation started so far (closure of one effect run)
  cleanup,     \* index in comps of the effect run whose cleanup is registered, 0 if none
  producedBy,  \* for each message, the computation that appended it (0: none)
  unhandled,   \* TRUE once a rejection escaped run() unhandled
  lastOp,      \* name of the last event handled
  env,         \* process.env of the gateway
  chat,        \* the POST /api/chat request being handled
  asked,       \* the text generateBotReply is called with
  askedAt,     \* what new Date() reads during that call
  answer       \* what the call returned, NoAnswer before it returns

appVars == <<variant, messages, input, isTyping, provider, nextId, comps,
             cleanup, producedBy, unhandled, lastOp>>

gatewayVars == <<env, chat>>

responderVars == <<asked, askedAt, answer>>

vars == <<variant, messages, input, isTyping, provider, nextId, comps,
          cleanup, producedBy, unhandled, lastOp, env, chat, asked, askedAt,
          answer>>

(* ---------------------------------------------------------------------- *)
(* Bounds                                                                 *)
(* ---------------------------------------------------------------------- *)
MaxTurns == 2    \* user messages submitted in one run
MaxComps == 3    \* reply computations started in one run

(* ---------------------------------------------------------------------- *)
(* Texts                                                                  *)
(* ---------------------------------------------------------------------- *)
Whitespace == {" ", "\t", "\n"}

RECURSIVE TrimStart(_)
TrimStart(s) ==
  IF s # <<>> /\ Head(s) \in Whitespace THEN TrimStart(Tail(s)) ELSE s

RECURSIVE TrimEnd(_)
TrimEnd(s) ==
  IF s # <<>> /\ s[Len(s)] \in Whitespace
    THEN TrimEnd(SubSeq(s, 1, Len(s) - 1))
    ELSE s

Trim_StartOnly(s) == TrimStart(s)

Trim(s) == TrimEnd(TrimStart(s))

(* ---------------------------------------------------------------------- *)
(* Local responder: normalize and generateBotReply                        *)
(* ---------------------------------------------------------------------- *)
UpperChars ==
  <<"A", "B", "C", "D", "E", "F", "G", "H", "I", "J", "K", "L", "M",
    "N", "O", "P", "Q", "R", "S", "T", "U", "V", "W", "X", "Y", "Z">>

LowerChars ==
  <<"a", "b", "c", "d", "e", "f", "g", "h", "i", "j", "k", "l", "m",
    "n", "o", "p", "q", "r", "s", "t", "u", "v", "w", "x", "y", "z">>

Digits == {"0", "1", "2", "3", "4", "5", "6", "7", "8", "9"}

\* the class \w
WordChars ==
  {UpperChars[i] : i \in 1..Len(UpperChars)} \cup
  {LowerChars[i] : i \in 1..Len(LowerChars)} \cup Digits \cup {"_"}

\* the characters `.` does not match
LineTerminators == {"\n", "\r"}

toLowerCase(s) ==
  [i \in 1..Len(s) |->
     IF \E k \in 1..Len(UpperChars) : UpperChars[k] = s[i]
       THEN LowerChars[CHOOSE k \in 1..Len(UpperChars) : UpperChars[k] = s[i]]
       ELSE s[i]]

\* replace(/[^\w\s]/g, '')
RECURSIVE StripPunctuation(_)
StripPunctuation(s) ==
  IF s = <<>> THEN <<>>
  ELSE IF Head(s) \in WordChars \cup Whitespace
         THEN <<Head(s)>> \o StripPunctuation(Tail(s))
         ELSE StripPunctuation(Tail(s))

normalize(text) == Trim(StripPunctuation(toLowerCase(text)))

\* \b between t[i] and t[i+1] (i = 0: before the first character)
WordBoundary(t, i) ==
  (i >= 1 /\ i <= Len(t) /\ t[i] \in WordChars)
    # (i + 1 <= Len(t) /\ t[i + 1] \in WordChars)

\* the literal w occurs in t at position p
OccursAt(t, w, p) ==
  /\ p >= 1
  /\ p + Len(w) - 1 <= Len(t)
  /\ SubSeq(t, p, p + Len(w) - 1) = w

Positions(t) == 1..Len(t)

\* /(^|\b)(hi|hello|hey|hola)(\b|!|\.)/
GreetingWords ==
  { <<"h", "i">>, <<"h", "e", "l", "l", "o">>, <<"h", "e", "y">>,
    <<"h", "o", "l", "a">> }

MatchesGreeting(t) ==
  \E w \in GreetingWords, p \in Positions(t) :
    /\ OccursAt(t, w, p)
    /\ (p = 1 \/ WordBoundary(t, p - 1))
    /\ \/ WordBoundary(t, p + Len(w) - 1)
       \/ (p + Len(w) <= Len(t) /\ t[p + Len(w)] \in {"!", "."})

\* /help|support|assist/
HelpWords ==
  { <<"h", "e", "l", "p">>, <<"s", "u", "p", "p", "o", "r", "t">>,
    <<"a", "s", "s", "i", "s", "t">> }

MatchesHelp(t) ==
  \E w \in HelpWords, p \in Positions(t) : OccursAt(t, w, p)

\* /\btime\b/
MatchesTime(t) ==
  \E p \in Positions(t) :
    /\ OccursAt(t, <<"t", "i", "m", "e">>, p)
    /\ WordBoundary(t, p - 1)
    /\ WordBoundary(t, p + 3)

\* /\b(date|day)\b/
MatchesDate(t) ==
  \E w \in { <<"d", "a", "t", "e">>, <<"d", "a", "y">> }, p \in Positions(t) :
    /\ OccursAt(t, w, p)
    /\ WordBoundary(t, p - 1)
    /\ WordBoundary(t, p + Len(w) - 1)

\* /\bjoke|funny\b/ : the alternatives are `\bjoke` and `funny\b`
MatchesJoke(t) ==
  \/ \E p \in Positions(t) :
       OccursAt(t, <<"j", "o", "k", "e">>, p) /\ WordBoundary(t, p - 1)
  \/ \E p \in Positions(t) :
       OccursAt(t, <<"f", "u", "n", "n", "y">>, p) /\ WordBoundary(t, p + 4)

\* t.match(/\becho\s+(.+)/)
\* the end of the maximal run of whitespace that starts at position p
RECURSIVE SpaceRunEnd(_, _)
SpaceRunEnd(t, p) ==
  IF p <= Len(t) /\ t[p] \in Whitespace THEN SpaceRunEnd(t, p + 1) ELSE p

\* the end of the maximal run of characters matched by `.` from position p
RECURSIVE DotRunEnd(_, _)
DotRunEnd(t, p) ==
  IF p <= Len(t) /\ t[p] \notin LineTerminators THEN DotRunEnd(t, p + 1) ELSE p

\* `\becho\s+(.+)` matches at p with \s+ taking the k characters after echo
EchoMatchAt(t, p, k) ==
  /\ OccursAt(t, <<"e", "c", "h", "o">>, p)
  /\ WordBoundary(t, p - 1)
  /\ k >= 1
  /\ p + 3 + k <= SpaceRunEnd(t, p + 4) - 1
  /\ p + 4 + k <= Len(t)
  /\ t[p + 4 + k] \notin LineTerminators

EchoStarts(t) ==
  {p \in Positions(t) : \E k \in 1..Len(t) : EchoMatchAt(t, p, k)}

\* the capture group of the leftmost match, \s+ greedy with backtracking
EchoCapture(t) ==
  LET p == CHOOSE q \in EchoStarts(t) : \A r \in EchoStarts(t) : q <= r
      k == CHOOSE j \in 1..Len(t) :
             /\ EchoMatchAt(t, p, j)
             /\ \A i \in 1..Len(t) : EchoMatchAt(t, p, i) => i <= j
      from == p + 4 + k
  IN  SubSeq(t, from, DotRunEnd(t, from) - 1)

\* now: what new Date() formats to, [time |-> ..., date |-> ...]
generateBotReply(text, now) ==
  LET \* the chain of tests on t = normalize(text)
      Classify(t) ==
        IF t = <<>> THEN <<"Could you clarify that?">>
        ELSE IF MatchesGreeting(t) THEN <<"Hello! How can I help you today?">>
        ELSE IF MatchesHelp(t) THEN
          <<"I can greet, tell the time/date, echo text, or tell a joke. Try 'time', 'date', 'echo your text', or 'joke'.">>
        ELSE IF MatchesTime(t) THEN
          <<"The current time is ">> \o now.time \o <<".">>
        ELSE IF MatchesDate(t) THEN <<"Today is ">> \o now.date \o <<".">>
        ELSE IF MatchesJoke(t) THEN
          <<"Why do programmers prefer dark mode? Because light attracts bugs.">>
        ELSE IF EchoStarts(t) # {} THEN EchoCapture(t)
        ELSE <<"You said: \"">> \o text \o <<"\". I'm a simple demo bot.">>
  IN  CHOOSE reply \in {Classify(t) : t \in {normalize(text)}} : TRUE

\* what the clock can read when a reply is generated
Clocks ==
  { [time |-> <<"10:26:00 AM">>, date |-> <<"11/2/2026">>],
    [time |-> <<"11:59:59 PM">>, date |-> <<"11/3/2026">>] }

\* the reading of the clock when nothing has been asked
NoClock == [time |-> <<"<none>">>, date |-> <<"<none>">>]

NoAnswer == <<"<no reply yet>">>

Greeting == <<"Hi! I'm your assistant. Ask me anything.">>

InitialMessages == << [id |-> 1, role |-> "bot", text |-> Greeting] >>

\* what the user can type in the composer
Inputs ==
  { <<>>, <<" ">>, <<" ", "h", "i", " ", "a", "\n">> }

Providers == {"openai", "gemini"}

(* ---------------------------------------------------------------------- *)
(* fetchLLMReply: what the fetch of /api/chat can deliver                 *)
(* ---------------------------------------------------------------------- *)
NoOutcome == [kind |-> "none", payload |-> <<>>]

FetchOutcomes ==
  { [kind |-> "reject",  payload |-> <<"Failed to fetch">>],
    [kind |-> "nonok",   payload |-> <<"{\"error\":\"OPENAI_API_KEY not set\"}">>],
    [kind |-> "nonok",   payload |-> <<>>],
    [kind |-> "badjson", payload |-> <<"Unexpected token < in JSON">>],
    [kind |-> "ok",      payload |-> <<"Hello", " ", "there">>] }

\* the result of awaiting fetchLLMReply when the network delivers o
fetchLLMReply(o) ==
  CASE o.kind = "reject"  -> [threw |-> TRUE, value |-> o.payload]
    [] o.kind = "nonok"   ->
         [threw |-> TRUE,
          value |-> IF o.payload # <<>> THEN o.payload ELSE <<"Request failed">>]
    [] o.kind = "badjson" -> [threw |-> TRUE, value |-> o.payload]
    [] OTHER              -> [threw |-> FALSE, value |-> o.payload]

\* String(err?.message || err)
ErrString(message) == IF message # <<>> THEN message ELSE <<"Error">>

\* messages.map(m => ({ role: m.role === 'bot' ? 'assistant' : m.role, text }))
History(msgs) ==
  [i \in 1..Len(msgs) |->
     [role |-> IF msgs[i].role = "bot" THEN "assistant" ELSE msgs[i].role,
      text |-> msgs[i].text]]

(* ---------------------------------------------------------------------- *)
(* The reply-trigger effect, run after a render in which one of its       *)
(* dependencies changed: first the cleanup of the previous run, then the  *)
(* body.                                                                  *)
(* ---------------------------------------------------------------------- *)
RunCleanup_Noop(cs, cl) == cs

RunCleanup(cs, cl) ==
  IF cl # 0 THEN [cs EXCEPT ![cl].cancelled = TRUE] ELSE cs

ReplyEffect_NoRoleCheck(msgs, prov, cs, cl, typing) ==
  LET cs1 == RunCleanup(cs, cl)
  IN  IF Len(msgs) = 0
        THEN [comps |-> cs1, cleanup |-> 0, isTyping |-> typing]
        ELSE [comps |-> Append(cs1,
                          [turn      |-> msgs[Len(msgs)].id,
                           provider  |-> prov,
                           history   |-> History(msgs),
                           delayMs   |-> 0,
                           cancelled |-> FALSE,
                           status    |-> "running",
                           outcome   |-> NoOutcome]),
              cleanup  |-> Len(cs1) + 1,
              isTyping |-> TRUE]

ReplyEffect(msgs, prov, cs, cl, typing) ==
  LET cs1 == RunCleanup(cs, cl)
  IN  IF Len(msgs) = 0 \/ msgs[Len(msgs)].role # "user"
        THEN [comps |-> cs1, cleanup |-> 0, isTyping |-> typing]
        ELSE [comps |-> Append(cs1,
                          [turn      |-> msgs[Len(msgs)].id,
                           provider  |-> prov,
                           history   |-> History(msgs),
                           delayMs   |-> 0,
                           cancelled |-> FALSE,
                           status    |-> "running",
                           outcome   |-> NoOutcome]),
              cleanup  |-> Len(cs1) + 1,
              isTyping |-> TRUE]

Min(a, b) == IF a <= b THEN a ELSE b
Max(a, b) == IF a >= b THEN a ELSE b

\* the local variant: the computation is a timer, its cleanup is clearTimeout
LocalReplyEffect(msgs, cs, cl, typing) ==
  LET cs1 == RunCleanup(cs, cl)
  IN  IF Len(msgs) = 0 \/ msgs[Len(msgs)].role # "user"
        THEN [comps |-> cs1, cleanup |-> 0, isTyping |-> typing]
        ELSE [comps |-> Append(cs1,
                          [turn      |-> msgs[Len(msgs)].id,
                           provider  |-> "local",
                           history   |-> <<>>,
                           delayMs   |-> Min(1200,
                                           400 + Max(0, Len(msgs[Len(msgs)].text)) * 20),
                           cancelled |-> FALSE,
                           status    |-> "running",
                           outcome   |-> NoOutcome]),
              cleanup  |-> Len(cs1) + 1,
              isTyping |-> TRUE]

\* the effect of the mounted variant
Effect(v, msgs, prov, cs, cl, typing) ==
  IF v = "llm" THEN ReplyEffect(msgs, prov, cs, cl, typing)
               ELSE LocalReplyEffect(msgs, cs, cl, typing)

(* ---------------------------------------------------------------------- *)
(* Provider gateway: POST /api/chat                                       *)
(* ---------------------------------------------------------------------- *)
MaxRawLen == 2   \* entries in the messages array of a request

\* a value that is undefined in the JavaScript program
Absent == "<undefined>"

\* !v is false
Truthy(v) == v \notin {Absent, ""}

\* process.env as the operator configured it
BothKeysEnv ==
  [OPENAI_API_KEY |-> "sk-openai", GEMINI_API_KEY |-> "g-key",
   OPENAI_MODEL |-> Absent, GEMINI_MODEL |-> Absent]

Envs ==
  { BothKeysEnv,
    [OPENAI_API_KEY |-> Absent, GEMINI_API_KEY |-> "g-key",
     OPENAI_MODEL |-> Absent, GEMINI_MODEL |-> "gemini-pro"],
    [OPENAI_API_KEY |-> "sk-openai", GEMINI_API_KEY |-> "",
     OPENAI_MODEL |-> "gpt-4o", GEMINI_MODEL |-> Absent],
    [OPENAI_API_KEY |-> "", GEMINI_API_KEY |-> Absent,
     OPENAI_MODEL |-> Absent, GEMINI_MODEL |-> Absent] }

\* the provider member of a request body: absent, the two names, an unknown
\* name, a value that is not a string
ProviderValues == {Absent, "openai", "gemini", "claude", "<number 7>"}

\* one entry of the messages array: null, or an object with a role and a text
\* that is a string or not
NullEntry ==
  [isNull |-> TRUE, role |-> Absent, textIsString |-> FALSE, text |-> <<>>]

RawEntries ==
  {NullEntry} \cup
  { [isNull |-> FALSE, role |-> r, textIsString |-> b,
     text |-> IF b THEN <<"h", "i">> ELSE <<>>] :
      r \in {"user", "bot", "assistant", "system", "tool"}, b \in BOOLEAN }

RECURSIVE SeqsUpTo(_, _)
SeqsUpTo(S, n) ==
  IF n = 0 THEN {<<>>}
  ELSE LET shorter == SeqsUpTo(S, n - 1)
       IN  shorter \cup {Append(q, x) : q \in shorter, x \in S}

\* the messages member of a request body: an array, or something else
RawBodies ==
  { [isArray |-> FALSE, items |-> <<>>] } \cup
  { [isArray |-> TRUE, items |-> q] : q \in SeqsUpTo(RawEntries, MaxRawLen) }

RecognizedRoles == {"user", "bot", "assistant", "system"}

KeptByFilter(m) ==
  ~m.isNull /\ m.textIsString /\ m.role \in RecognizedRoles

normalizeMessages_NoRoleFilter(raw) ==
  IF ~raw.isArray THEN <<>>
  ELSE LET TextIsString(m) == ~m.isNull /\ m.textIsString
           kept == SelectSeq(raw.items, TextIsString)
       IN  [i \in 1..Len(kept) |->
              [role    |-> IF kept[i].role = "bot" THEN "assistant"
                                                   ELSE kept[i].role,
               content |-> kept[i].text]]

normalizeMessages(raw) ==
  IF ~raw.isArray THEN <<>>
  ELSE LET kept == SelectSeq(raw.items, KeptByFilter)
       IN  [i \in 1..Len(kept) |->
              [role    |-> IF kept[i].role = "bot" THEN "assistant"
                                                   ELSE kept[i].role,
               content |-> kept[i].text]]

toGeminiContents_KeepsSystem(msgs) ==
  [i \in 1..Len(msgs) |->
     [role  |-> IF msgs[i].role = "assistant" THEN "model" ELSE msgs[i].role,
      parts |-> << [text |-> msgs[i].content] >>]]

toGeminiContents(msgs) ==
  [i \in 1..Len(msgs) |->
     [role  |-> IF msgs[i].role = "assistant" THEN "model"
                ELSE IF msgs[i].role = "system" THEN "user"
                ELSE msgs[i].role,
      parts |-> << [text |-> msgs[i].content] >>]]

NoFetch == [url |-> Absent, auth |-> Absent, model |-> Absent, payload |-> <<>>]

callOpenAI_NoKeyCheck(msgs, e) ==
  [threw |-> FALSE, message |-> <<>>,
   fetch |-> [url     |-> "https://api.openai.com/v1/chat/completions",
              auth    |-> "Bearer " \o e.OPENAI_API_KEY,
              model   |-> IF Truthy(e.OPENAI_MODEL) THEN e.OPENAI_MODEL
                                                    ELSE "gpt-4o-mini",
              payload |-> msgs]]

\* callOpenAI up to its fetch: the key check, then the request it sends
callOpenAI(msgs, e) ==
  IF ~Truthy(e.OPENAI_API_KEY)
    THEN [threw |-> TRUE, message |-> <<"OPENAI_API_KEY not set">>,
          fetch |-> NoFetch]
    ELSE [threw |-> FALSE, message |-> <<>>,
          fetch |-> [url     |-> "https://api.openai.com/v1/chat/completions",
                     auth    |-> "Bearer " \o e.OPENAI_API_KEY,
                     model   |-> IF Truthy(e.OPENAI_MODEL) THEN e.OPENAI_MODEL
                                                           ELSE "gpt-4o-mini",
                     payload |-> msgs]]

\* callGemini up to its fetch
callGemini(msgs, e) ==
  IF ~Truthy(e.GEMINI_API_KEY)
    THEN [threw |-> TRUE, message |-> <<"GEMINI_API_KEY not set">>,
          fetch |-> NoFetch]
    ELSE [threw |-> FALSE, message |-> <<>>,
          fetch |-> [url     |-> "https://generativelanguage.googleapis.com/v1beta/models/",
                     auth    |-> "?key=" \o e.GEMINI_API_KEY,
                     model   |-> IF Truthy(e.GEMINI_MODEL) THEN e.GEMINI_MODEL
                                                           ELSE "gemini-1.5-flash",
                     payload |-> toGeminiContents(msgs)]]

\* what the provider's endpoint can deliver: a transport failure, a non-2xx
\* response, a 2xx response whose body is not JSON, a 2xx response whose
\* first candidate text is missing, is not a string, or is a string
UpstreamOutcomes ==
  { [kind |-> "reject", status |-> <<>>, text |-> <<"fetch failed">>,
     content |-> <<>>],
    [kind |-> "nonok", status |-> <<"401">>, text |-> <<"invalid key">>,
     content |-> <<>>],
    [kind |-> "badjson", status |-> <<"200">>,
     text |-> <<"Unexpected end of JSON input">>, content |-> <<>>],
    [kind |-> "missing", status |-> <<"200">>, text |-> <<>>, content |-> <<>>],
    [kind |-> "nonstring", status |-> <<"200">>, text |-> <<>>,
     content |-> <<>>],
    [kind |-> "string", status |-> <<"200">>, text |-> <<>>, content |-> <<>>],
    [kind |-> "string", status |-> <<"200">>, text |-> <<>>,
     content |-> <<" ", "\n">>],
    [kind |-> "string", status |-> <<"200">>, text |-> <<>>,
     content |-> <<" ", "H", "i", "\n">>] }

NoUpstream ==
  [kind |-> "none", status |-> <<>>, text |-> <<>>, content |-> <<>>]

\* the rest of an adapter after its fetch settled with o; name is "OpenAI" or
\* "Gemini", noText the message of the adapter's empty-content error
AdapterResult_NoTrim(name, noText, o) ==
  CASE o.kind = "reject"    -> [threw |-> TRUE, value |-> o.text]
    [] o.kind = "nonok"     ->
         [threw |-> TRUE,
          value |-> <<name, " error ">> \o o.status \o <<": ">> \o o.text]
    [] o.kind = "badjson"   -> [threw |-> TRUE, value |-> o.text]
    [] o.kind = "missing"   -> [threw |-> TRUE, value |-> noText]
    [] o.kind = "nonstring" ->
         [threw |-> TRUE, value |-> <<"trim is not a function">>]
    [] OTHER                ->
         IF o.content = <<>>
           THEN [threw |-> TRUE, value |-> noText]
           ELSE [threw |-> FALSE, value |-> o.content]

AdapterResult(name, noText, o) ==
  CASE o.kind = "reject"    -> [threw |-> TRUE, value |-> o.text]
    [] o.kind = "nonok"     ->
         [threw |-> TRUE,
          value |-> <<name, " error ">> \o o.status \o <<": ">> \o o.text]
    [] o.kind = "badjson"   -> [threw |-> TRUE, value |-> o.text]
    [] o.kind = "missing"   -> [threw |-> TRUE, value |-> noText]
    [] o.kind = "nonstring" ->
         [threw |-> TRUE, value |-> <<"trim is not a function">>]
    [] OTHER                ->
         IF Trim(o.content) = <<>>
           THEN [threw |-> TRUE, value |-> noText]
           ELSE [threw |-> FALSE, value |-> Trim(o.content)]

callOpenAIResult(o) == AdapterResult("OpenAI", <<"OpenAI returned no content">>, o)

callGeminiResult(o) == AdapterResult("Gemini", <<"Gemini returned no text">>, o)

\* String(err?.message || err || 'Unknown error')
HandlerErrString(message) == IF message # <<>> THEN message ELSE <<"Error">>

IdleChat ==
  [stage |-> "idle", provider |-> Absent,
   raw |-> [isArray |-> FALSE, items |-> <<>>], normalized |-> <<>>,
   adapter |-> "none", fetches |-> <<>>, upstream |-> NoUpstream,
   responses |-> <<>>, raised |-> FALSE]

\* res.status(400).json({ error }) / res.status(500).json({ error })
ErrorResponse(status, message) ==
  [status |-> status, kind |-> "error", value |-> message]

\* res.json({ text })
TextResponse(text) == [status |-> 200, kind |-> "text", value |-> text]

Route_OnlyKnownOpenAI(prov) ==
  IF prov = "openai" THEN "openai" ELSE "gemini"

\* const fn = provider === 'gemini' ? callGemini : callOpenAI
Route(prov) == IF prov = "gemini" THEN "gemini" ELSE "openai"

PostChat_KeyBeforeEmptyCheck(p, raw) ==
  /\ chat.stage = "idle"
  /\ LET prov  == IF p = Absent THEN "openai" ELSE p
         normalized == normalizeMessages(raw)
         adapter == Route(prov)
         call  == IF adapter = "gemini" THEN callGemini(normalized, env)
                                        ELSE callOpenAI(normalized, env)
         req   == [IdleChat EXCEPT !.provider = p, !.raw = raw,
                                   !.normalized = normalized]
     IN  IF call.threw
           THEN chat' = [req EXCEPT
                  !.stage = "responded", !.adapter = adapter,
                  !.responses =
                     << ErrorResponse(500, HandlerErrString(call.message)) >>]
           ELSE IF Len(normalized) = 0
             THEN chat' = [req EXCEPT
                    !.stage = "responded",
                    !.responses =
                       << ErrorResponse(400, <<"No messages provided">>) >>]
             ELSE chat' = [req EXCEPT
                    !.stage = "awaiting", !.adapter = adapter,
                    !.fetches = << call.fetch >>]
  /\ UNCHANGED env
  /\ UNCHANGED appVars
  /\ UNCHANGED responderVars

PostChat_NoEmptyCheck(p, raw) ==
  /\ chat.stage = "idle"
  /\ LET prov  == IF p = Absent THEN "openai" ELSE p
         normalized == normalizeMessages(raw)
         adapter == Route(prov)
         call  == IF adapter = "gemini" THEN callGemini(normalized, env)
                                        ELSE callOpenAI(normalized, env)
         req   == [IdleChat EXCEPT !.provider = p, !.raw = raw,
                                   !.normalized = normalized]
     IN  IF call.threw
           THEN chat' = [req EXCEPT
                  !.stage = "responded", !.adapter = adapter,
                  !.responses =
                     << ErrorResponse(500, HandlerErrString(call.message)) >>]
           ELSE chat' = [req EXCEPT
                  !.stage = "awaiting", !.adapter = adapter,
                  !.fetches = << call.fetch >>]
  /\ UNCHANGED env
  /\ UNCHANGED appVars
  /\ UNCHANGED responderVars

\* the handler from its start to its first await (or to its response)
PostChat(p, raw) ==
  /\ chat.stage = "idle"
  /\ LET prov  == IF p = Absent THEN "openai" ELSE p
         normalized == normalizeMessages(raw)
         adapter == Route(prov)
         call  == IF adapter = "gemini" THEN callGemini(normalized, env)
                                        ELSE callOpenAI(normalized, env)
         req   == [IdleChat EXCEPT !.provider = p, !.raw = raw,
                                   !.normalized = normalized]
     IN  IF Len(normalized) = 0
           THEN chat' = [req EXCEPT
                  !.stage = "responded",
                  !.responses = << ErrorResponse(400, <<"No messages provided">>) >>]
           ELSE IF call.threw
             THEN chat' = [req EXCEPT
                    !.stage = "responded", !.adapter = adapter,
                    !.responses =
                       << ErrorResponse(500, HandlerErrString(call.message)) >>]
             ELSE chat' = [req EXCEPT
                    !.stage = "awaiting", !.adapter = adapter,
                    !.fetches = << call.fetch >>]
  /\ UNCHANGED env
  /\ UNCHANGED appVars
  /\ UNCHANGED responderVars

PostChatResume_RetriesOnFailure(o) ==
  /\ chat.stage = "awaiting"
  /\ LET res == IF chat.adapter = "gemini" THEN callGeminiResult(o)
                                           ELSE callOpenAIResult(o)
     IN  IF o.kind \in {"reject", "nonok"} /\ Len(chat.fetches) < 2
           THEN chat' = [chat EXCEPT !.fetches = Append(@, @[1])]
           ELSE chat' = [chat EXCEPT
                  !.stage = "responded",
                  !.upstream = o,
                  !.responses =
                     IF res.threw
                       THEN Append(@, ErrorResponse(500, HandlerErrString(res.value)))
                       ELSE Append(@, TextResponse(res.value))]
  /\ UNCHANGED env
  /\ UNCHANGED appVars
  /\ UNCHANGED responderVars

\* the handler from the settling of the adapter's fetch to its response
PostChatResume(o) ==
  /\ chat.stage = "awaiting"
  /\ LET res == IF chat.adapter = "gemini" THEN callGeminiResult(o)
                                           ELSE callOpenAIResult(o)
     IN  chat' = [chat EXCEPT
           !.stage = "responded",
           !.upstream = o,
           !.responses =
              IF res.threw
                THEN Append(@, ErrorResponse(500, HandlerErrString(res.value)))
                ELSE Append(@, TextResponse(res.value))]
  /\ UNCHANGED env
  /\ UNCHANGED appVars
  /\ UNCHANGED responderVars

(* ---------------------------------------------------------------------- *)
(* Initial state: App mounted (under StrictMode the effect ran, was       *)
(* cleaned up and ran again; the last message is the greeting, so no run  *)
(* started a computation).                                                *)
(* ---------------------------------------------------------------------- *)
MountEffect(v) ==
  LET first  == Effect(v, InitialMessages, "openai", <<>>, 0, FALSE)
  IN  Effect(v, InitialMessages, "openai", first.comps, first.cleanup,
             first.isTyping)

Init ==
  /\ variant \in {"llm", "local"}
  /\ messages = InitialMessages
  /\ input = <<>>
  /\ isTyping = MountEffect(variant).isTyping
  /\ provider = "openai"
  /\ nextId = 2
  /\ comps = MountEffect(variant).comps
  /\ cleanup = MountEffect(variant).cleanup
  /\ producedBy = <<0>>
  /\ unhandled = FALSE
  /\ lastOp = "mount"
  /\ env = BothKeysEnv
  /\ chat = IdleChat
  /\ asked = <<>>
  /\ askedAt = NoClock
  /\ answer = NoAnswer

(* ---------------------------------------------------------------------- *)
(* Events                                                                 *)
(* ---------------------------------------------------------------------- *)
canSend_IgnoresPending == Len(Trim(input)) > 0

\* useMemo canSend
canSend == Len(Trim(input)) > 0 /\ ~isTyping

\* textarea onChange
SetInput(t) ==
  /\ t # input
  /\ input' = t
  /\ lastOp' = "input"
  /\ UNCHANGED <<variant, messages, isTyping, provider, nextId, comps,
                 cleanup, producedBy, unhandled>>
  /\ UNCHANGED gatewayVars
  /\ UNCHANGED responderVars

\* form onSubmit, followed by the render and the effect it causes
handleSubmit ==
  /\ lastOp' = "submit"
  /\ UNCHANGED gatewayVars
  /\ UNCHANGED responderVars
  /\ IF ~canSend
       THEN UNCHANGED <<variant, messages, input, isTyping, provider, nextId,
                        comps, cleanup, producedBy, unhandled>>
       ELSE /\ Cardinality({i \in 1..Len(messages) : messages[i].role = "user"})
                 < MaxTurns
            /\ Len(comps) < MaxComps
            /\ LET userMessage == [id |-> nextId, role |-> "user",
                                   text |-> Trim(input)]
                   msgs == Append(messages, userMessage)
                   eff  == Effect(variant, msgs, provider, comps, cleanup,
                                  isTyping)
               IN  /\ messages' = msgs
                   /\ producedBy' = Append(producedBy, 0)
                   /\ nextId' = nextId + 1
                   /\ input' = <<>>
                   /\ comps' = eff.comps
                   /\ cleanup' = eff.cleanup
                   /\ isTyping' = eff.isTyping
            /\ UNCHANGED <<variant, provider, unhandled>>

\* select onChange, followed by the render and the effect it causes
SetProvider_NoRerun(p) ==
  /\ variant = "llm"
  /\ p # provider
  /\ messages[Len(messages)].role = "user" => Len(comps) < MaxComps
  /\ provider' = p
  /\ lastOp' = "provider"
  /\ UNCHANGED <<variant, messages, input, nextId, producedBy, unhandled,
                 comps, cleanup, isTyping>>
  /\ UNCHANGED gatewayVars
  /\ UNCHANGED responderVars

SetProvider(p) ==
  /\ variant = "llm"
  /\ p # provider
  /\ messages[Len(messages)].role = "user" => Len(comps) < MaxComps
  /\ provider' = p
  /\ LET eff == ReplyEffect(messages, p, comps, cleanup, isTyping)
     IN  /\ comps' = eff.comps
         /\ cleanup' = eff.cleanup
         /\ isTyping' = eff.isTyping
  /\ lastOp' = "provider"
  /\ UNCHANGED <<variant, messages, input, nextId, producedBy, unhandled>>
  /\ UNCHANGED gatewayVars
  /\ UNCHANGED responderVars

\* run() after `await fetchLLMReply` settled with res, in a computation
\* whose flag reads cancelled: what try/catch/finally do
run_FinallyUnguarded(cancelled, res) ==
  [append      |-> ~cancelled,
   text        |-> IF res.threw THEN <<"Error: ">> \o ErrString(res.value)
                                ELSE res.value,
   clearTyping |-> TRUE,
   escaped     |-> FALSE]

run_NoCancelCheck(cancelled, res) ==
  [append      |-> TRUE,
   text        |-> IF res.threw THEN <<"Error: ">> \o ErrString(res.value)
                                ELSE res.value,
   clearTyping |-> ~cancelled,
   escaped     |-> FALSE]

run_NoCatch(cancelled, res) ==
  [append      |-> ~cancelled /\ ~res.threw,
   text        |-> res.value,
   clearTyping |-> ~cancelled,
   escaped     |-> res.threw]

run_NoFinally(cancelled, res) ==
  [append      |-> ~cancelled,
   text        |-> IF res.threw THEN <<"Error: ">> \o ErrString(res.value)
                                ELSE res.value,
   clearTyping |-> FALSE,
   escaped     |-> FALSE]

run(cancelled, res) ==
  [append      |-> ~cancelled,
   text        |-> IF res.threw THEN <<"Error: ">> \o ErrString(res.value)
                                ELSE res.value,
   clearTyping |-> ~cancelled,
   escaped     |-> FALSE]

\* the fetch of computation c settles with o: run() resumes, then the render
\* and, if the messages changed, the effect
Settle(c, o) ==
  /\ variant = "llm"
  /\ c \in 1..Len(comps)
  /\ comps[c].status = "running"
  /\ lastOp' = "settle"
  /\ LET r       == run(comps[c].cancelled, fetchLLMReply(o))
         settled == [comps EXCEPT
                       ![c].status = "done",
                       ![c].outcome = IF comps[c].cancelled THEN @ ELSE o]
         typing  == IF r.clearTyping THEN FALSE ELSE isTyping
         botMessage == [id |-> nextId, role |-> "bot", text |-> r.text]
         msgs == Append(messages, botMessage)
         eff  == ReplyEffect(msgs, provider, settled, cleanup, typing)
     IN  /\ unhandled' = (unhandled \/ r.escaped)
         /\ IF r.append
              THEN /\ messages' = msgs
                   /\ producedBy' = Append(producedBy, c)
                   /\ nextId' = nextId + 1
                   /\ comps' = eff.comps
                   /\ cleanup' = eff.cleanup
                   /\ isTyping' = eff.isTyping
              ELSE /\ comps' = settled
                   /\ isTyping' = typing
                   /\ UNCHANGED <<messages, producedBy, nextId, cleanup>>
  /\ UNCHANGED <<variant, input, provider>>
  /\ UNCHANGED gatewayVars
  /\ UNCHANGED responderVars

\* the setTimeout callback of the local variant, followed by the render and
\* the effect it causes; a cleared timer never fires
TimerFire(c, now) ==
  /\ variant = "local"
  /\ c \in 1..Len(comps)
  /\ comps[c].status = "running"
  /\ ~comps[c].cancelled
  /\ lastOp' = "timer"
  /\ LET last == CHOOSE m \in {messages[i] : i \in 1..Len(messages)} :
                   m.id = comps[c].turn
         replyText  == generateBotReply(last.text, now)
         botMessage == [id |-> nextId, role |-> "bot", text |-> replyText]
         msgs == Append(messages, botMessage)
         fired == [comps EXCEPT ![c].status = "done"]
         eff  == LocalReplyEffect(msgs, fired, cleanup, FALSE)
     IN  /\ messages' = msgs
         /\ producedBy' = Append(producedBy, c)
         /\ nextId' = nextId + 1
         /\ comps' = eff.comps
         /\ cleanup' = eff.cleanup
         /\ isTyping' = eff.isTyping
  /\ UNCHANGED <<variant, input, provider, unhandled>>
  /\ UNCHANGED gatewayVars
  /\ UNCHANGED responderVars

Next ==
  \/ \E t \in Inputs : SetInput(t)
  \/ handleSubmit
  \/ \E p \in Providers : SetProvider(p)
  \/ \E c \in 1..MaxComps, o \in FetchOutcomes : Settle(c, o)
  \/ \E c \in 1..MaxComps, now \in Clocks : TimerFire(c, now)

Spec == Init /\ [][Next]_vars

\* the response has been written; the handler is ready for the next request
\* (it keeps nothing from one request to the next)
ResponseSent ==
  /\ chat.stage = "responded"
  /\ chat' = IdleChat
  /\ UNCHANGED env
  /\ UNCHANGED appVars
  /\ UNCHANGED responderVars

\* the gateway alone: the server starts, then handles requests
GatewayInit ==
  /\ variant = "llm"
  /\ messages = InitialMessages
  /\ input = <<>>
  /\ isTyping = FALSE
  /\ provider = "openai"
  /\ nextId = 2
  /\ comps = <<>>
  /\ cleanup = 0
  /\ producedBy = <<0>>
  /\ unhandled = FALSE
  /\ lastOp = "mount"
  /\ env \in Envs
  /\ chat = IdleChat
  /\ asked = <<>>
  /\ askedAt = NoClock
  /\ answer = NoAnswer

GatewayNext ==
  \/ \E p \in ProviderValues, raw \in RawBodies : PostChat(p, raw)
  \/ \E o \in UpstreamOutcomes : PostChatResume(o)
  \/ ResponseSent

GatewaySpec == GatewayInit /\ [][GatewayNext]_vars

TypeOK ==
  /\ variant \in {"llm", "local"}
  /\ isTyping \in BOOLEAN
  /\ provider \in Providers
  /\ Len(producedBy) = Len(messages)
  /\ cleanup \in 0..Len(comps)

\* every reply-source call eventually settles
LiveSpec ==
  /\ Spec
  /\ WF_vars(\E c \in 1..MaxComps, o \in FetchOutcomes : Settle(c, o))
  /\ WF_vars(\E c \in 1..MaxComps, now \in Clocks : TimerFire(c, now))

(* ---------------------------------------------------------------------- *)
(* The local responder alone                                              *)
(* ---------------------------------------------------------------------- *)
MaxWords == 3    \* words in one text given to the responder

\* the words the texts are made of: one that triggers each rule, one that
\* triggers none, and words and a blank without letters or digits
Vocabulary ==
  { <<"h", "e", "l", "l", "o">>, <<"h", "e", "l", "p">>,
    <<"T", "i", "m", "e">>, <<"d", "a", "y">>, <<"j", "o", "k", "e">>,
    <<"e", "c", "h", "o">>, <<"w", "o", "r", "l", "d", "!">>,
    <<"?", "!">>, <<"_">>, <<" ">> }

\* the words of ws separated by single spaces
RECURSIVE Join(_)
Join(ws) ==
  IF ws = <<>> THEN <<>>
  ELSE IF Len(ws) = 1 THEN ws[1]
  ELSE ws[1] \o <<" ">> \o Join(Tail(ws))

\* the texts generateBotReply is called with
Queries == {Join(ws) : ws \in SeqsUpTo(Vocabulary, MaxWords)}

ResponderInit ==
  /\ variant = "local"
  /\ messages = InitialMessages
  /\ input = <<>>
  /\ isTyping = FALSE
  /\ provider = "openai"
  /\ nextId = 2
  /\ comps = <<>>
  /\ cleanup = 0
  /\ producedBy = <<0>>
  /\ unhandled = FALSE
  /\ lastOp = "mount"
  /\ env = BothKeysEnv
  /\ chat = IdleChat
  /\ asked \in Queries
  /\ askedAt \in Clocks
  /\ answer = NoAnswer

\* the call generateBotReply(asked) returns
Reply ==
  /\ answer = NoAnswer
  /\ answer' = generateBotReply(asked, askedAt)
  /\ UNCHANGED <<asked, askedAt>>
  /\ UNCHANGED appVars
  /\ UNCHANGED gatewayVars

ResponderNext == Reply

ResponderSpec == ResponderInit /\ [][ResponderNext]_vars

(* ---------------------------------------------------------------------- *)
(* Properties                                                             *)
(* ---------------------------------------------------------------------- *)
CompIds == 1..Len(comps)

LastMessage == messages[Len(messages)]

\* the computations that settled after they were cancelled: no message is theirs
Discarded ==
  {c \in CompIds : /\ comps[c].status = "done"
                   /\ comps[c].cancelled
                   /\ \A i \in 1..Len(producedBy) : producedBy[i] # c}

IsBlank(s) == \A i \in 1..Len(s) : s[i] \in Whitespace

\* t is s without its leading and trailing whitespace
IsTrimOf(t, s) ==
  /\ t # <<>>
  /\ t[1] \notin Whitespace
  /\ t[Len(t)] \notin Whitespace
  /\ \E a \in 0..Len(s) :
       /\ a + Len(t) <= Len(s)
       /\ SubSeq(s, a + 1, a + Len(t)) = t
       /\ \A i \in 1..a : s[i] \in Whitespace
       /\ \A i \in (a + Len(t) + 1)..Len(s) : s[i] \in Whitespace

\* C1: for every user message of the conversation exactly one reply
\* computation was started; no event that leaves the last user message the
\* same (a provider change while pending, a re-run of the effect) starts a
\* second one.
C1_ReplyStartedOncePerTurn ==
  \A i \in 1..Len(messages) :
    messages[i].role = "user" =>
      Cardinality({c \in CompIds : comps[c].turn = messages[i].id}) = 1

\* C2: a computation that is cancelled while still running stays cancelled,
\* and when its result arrives (or, in the local variant, its timer would
\* fire) no message is appended by it and the pending indicator is left as
\* it is; a cleared timer never fires.
C2_CancelledResultDiscarded ==
  [][\A c \in CompIds :
       (comps[c].cancelled /\ comps[c].status = "running") =>
         /\ comps'[c].cancelled
         /\ comps'[c].status = "done" =>
              (messages' = messages /\ isTyping' = isTyping)
         /\ \A i \in 1..Len(producedBy') :
              i > Len(producedBy) => producedBy'[i] # c
         /\ variant = "local" => comps'[c].status = "running"]_vars

C2_Witness ==
  /\ lastOp = "settle"
  /\ isTyping
  /\ LastMessage.role = "user"
  /\ Discarded # {}

\* C3: a submit while the pending indicator is set changes neither the
\* conversation nor the set of started computations, whatever the composer
\* holds.
C3_SubmitWhilePendingIsNoOp ==
  [][(isTyping /\ lastOp' = "submit") =>
       /\ messages' = messages
       /\ comps' = comps
       /\ nextId' = nextId
       /\ isTyping']_vars

C3_Witness ==
  /\ lastOp = "submit"
  /\ isTyping
  /\ ~IsBlank(input)

\* C4: a submit with nothing pending: a blank composer leaves conversation
\* and composer as they are; otherwise exactly one message is appended, of
\* role user, whose text is the composer text without leading and trailing
\* whitespace and whose id no earlier message has, and the composer is
\* emptied.
C4_SubmitAppendsTrimmedUserMessage ==
  [][(~isTyping /\ lastOp' = "submit") =>
       IF IsBlank(input)
         THEN messages' = messages /\ input' = input
         ELSE /\ Len(messages') = Len(messages) + 1
              /\ SubSeq(messages', 1, Len(messages)) = messages
              /\ messages'[Len(messages')].role = "user"
              /\ IsTrimOf(messages'[Len(messages')].text, input)
              /\ \A i \in 1..Len(messages) :
                   messages[i].id # messages'[Len(messages')].id
              /\ input' = <<>>]_vars

C4_Witness ==
  /\ lastOp = "submit"
  /\ input = <<>>
  /\ Len(messages) = 2
  /\ LastMessage = [id |-> 2, role |-> "user", text |-> <<"h", "i", " ", "a">>]

\* C5: at most one started computation is neither settled nor cancelled, and
\* while there is one the pending indicator is set.
C5_AtMostOneLiveComputation ==
  LET live == {c \in CompIds : comps[c].status = "running" /\ ~comps[c].cancelled}
  IN  /\ Cardinality(live) <= 1
      /\ live # {} => isTyping

C5_Witness ==
  \E c1, c2 \in CompIds :
    /\ comps[c1].status = "running" /\ comps[c1].cancelled
    /\ comps[c2].status = "running" /\ ~comps[c2].cancelled

\* C6: every step leaves the earlier conversation as a prefix of the later
\* one, and every bot message after the greeting stands immediately after
\* the user message whose reply computation appended it.
C6_AppendOnlyRepliesFollowCause ==
  [][/\ Len(messages') >= Len(messages)
     /\ SubSeq(messages', 1, Len(messages)) = messages
     /\ \A i \in 2..Len(messages') :
          messages'[i].role = "bot" =>
            /\ producedBy'[i] \in 1..Len(comps')
            /\ messages'[i - 1].role = "user"
            /\ comps'[producedBy'[i]].turn = messages'[i - 1].id]_vars

C6_Witness ==
  /\ Len(messages) = 5
  /\ Discarded # {}

\* the message of the failure o of the fetch of /api/chat
FailureMessage(o) ==
  IF o.kind = "nonok" /\ o.payload = <<>> THEN <<"Request failed">>
                                          ELSE o.payload

\* C7: when the fetch of the computation that is not cancelled is rejected or
\* answered non-2xx, exactly one message is appended, a bot message whose
\* text is "Error: " followed by the failure message, and no rejection
\* escapes.
C7_RemoteFailureBecomesErrorMessage ==
  [][\A c \in CompIds :
       ( /\ comps[c].status = "running"
         /\ ~comps[c].cancelled
         /\ comps'[c].status = "done"
         /\ comps'[c].outcome.kind \in {"reject", "nonok"} ) =>
         /\ messages' =
              Append(messages,
                     [id |-> nextId, role |-> "bot",
                      text |-> <<"Error: ">> \o FailureMessage(comps'[c].outcome)])
         /\ ~unhandled']_vars

C7_Witness ==
  /\ lastOp = "settle"
  /\ ~isTyping
  /\ LastMessage.role = "bot"
  /\ LastMessage.text = <<"Error: ", "Request failed">>

\* C8: whenever the pending indicator is set it is eventually cleared, and
\* whenever it is clear the last message of the conversation is a bot
\* message.
C8_PendingEventuallyCleared ==
  /\ isTyping ~> ~isTyping
  /\ [](~isTyping => LastMessage.role = "bot")

C8_Witness ==
  /\ ~isTyping
  /\ Len(messages) >= 3
  /\ \E c \in CompIds : comps[c].cancelled /\ producedBy[Len(messages)] # c
                        /\ comps[c].turn = messages[Len(messages) - 1].id

\* the messages of the request normalize to the empty list
NothingToForward(raw) ==
  \/ ~raw.isArray
  \/ \A i \in 1..Len(raw.items) :
       \/ raw.items[i].isNull
       \/ ~raw.items[i].textIsString
       \/ raw.items[i].role \notin {"user", "bot", "assistant", "system"}

\* the adapter's fetch delivered a 2xx response whose text is not blank
UpstreamSucceeded ==
  /\ Len(chat.fetches) = 1
  /\ chat.upstream.kind = "string"
  /\ ~IsBlank(chat.upstream.content)

\* C9: a request is answered exactly once and nothing is raised past the
\* handler; the answer is 200 {text} with a non-empty text exactly on
\* success, 400 {error} exactly when the normalized list is empty, and
\* 500 {error} in every other case.
C9_ChatAlwaysAnswersStructured ==
  /\ ~chat.raised
  /\ chat.stage = "awaiting" => Len(chat.responses) = 0
  /\ chat.stage = "responded" =>
       /\ Len(chat.responses) = 1
       /\ LET r == chat.responses[1]
          IN  /\ r.status \in {200, 400, 500}
              /\ r.status = 200 <=> UpstreamSucceeded
              /\ r.status = 200 => (r.kind = "text" /\ r.value # <<>>)
              /\ r.status = 400 <=> NothingToForward(chat.raw)
              /\ r.status # 200 => (r.kind = "error" /\ r.value # <<>>)

C9_Witness ==
  /\ chat.stage = "responded"
  /\ chat.upstream.kind = "string"
  /\ chat.upstream.content = <<" ", "\n">>
  /\ chat.responses[1].status = 500

\* the key the adapter selected by the request needs
SelectedKeyName ==
  IF chat.provider = "gemini" THEN "GEMINI_API_KEY" ELSE "OPENAI_API_KEY"

\* C10: a request whose normalized list is not empty and whose selected
\* provider has no credential is answered 500 with an error that names the
\* missing key, and no fetch of a provider is made for it.
C10_MissingCredentialFailsFast ==
  ( /\ chat.stage # "idle"
    /\ ~NothingToForward(chat.raw)
    /\ env[SelectedKeyName] \in {Absent, ""} ) =>
      /\ chat.stage = "responded"
      /\ chat.fetches = <<>>
      /\ chat.responses =
           << [status |-> 500, kind |-> "error",
               value |-> <<SelectedKeyName \o " not set">>] >>

C10_Witness ==
  /\ chat.stage = "responded"
  /\ chat.provider = "gemini"
  /\ env.GEMINI_API_KEY = Absent
  /\ Len(chat.normalized) = 2
  /\ chat.responses[1].status = 500

\* C11: a request whose messages normalize to the empty list (not an array,
\* an empty array, or every entry filtered out) is answered
\* 400 {error: "No messages provided"}; no adapter is invoked and no fetch is
\* made, whatever the provider value and the configured credentials.
C11_EmptyListIsClientError ==
  (chat.stage # "idle" /\ NothingToForward(chat.raw)) =>
    /\ chat.stage = "responded"
    /\ chat.responses =
         << [status |-> 400, kind |-> "error",
             value |-> <<"No messages provided">>] >>
    /\ chat.adapter = "none"
    /\ chat.fetches = <<>>

C11_Witness ==
  /\ chat.stage = "responded"
  /\ chat.raw.isArray
  /\ Len(chat.raw.items) = 2
  /\ chat.provider = "gemini"
  /\ env.GEMINI_API_KEY = Absent
  /\ chat.responses[1].status = 400

\* the provider answered 2xx without a usable first-candidate text
NoUsableContent(o) ==
  \/ o.kind = "missing"
  \/ o.kind = "string" /\ IsBlank(o.content)

\* C12: a 2xx provider response whose first-candidate text is missing, or
\* empty after trimming, is answered 500 {error}, and no 200 answer carries
\* an empty or blank text, whichever adapter handled the request.
C12_EmptyProviderContentIsError ==
  /\ (chat.stage = "responded" /\ NoUsableContent(chat.upstream)) =>
       /\ Len(chat.responses) = 1
       /\ chat.responses[1].status = 500
       /\ chat.responses[1].kind = "error"
  /\ \A i \in 1..Len(chat.responses) :
       chat.responses[i].status = 200 =>
         (chat.responses[i].kind = "text" /\ ~IsBlank(chat.responses[i].value))

C12_Witness ==
  /\ chat.stage = "responded"
  /\ chat.adapter = "gemini"
  /\ chat.upstream.kind = "missing"
  /\ chat.responses = << [status |-> 500, kind |-> "error",
                          value |-> <<"Gemini returned no text">>] >>

\* the positions of the entries of raw that normalization keeps
KeptPositions(raw) ==
  IF ~raw.isArray THEN {}
  ELSE {i \in 1..Len(raw.items) :
          /\ ~raw.items[i].isNull
          /\ raw.items[i].textIsString
          /\ raw.items[i].role \in {"user", "bot", "assistant", "system"}}

\* the j-th smallest element of the set of positions K
NthOf(K, j) == CHOOSE i \in K : Cardinality({k \in K : k <= i}) = j

\* C13: the normalized list is the subsequence, in order, of the entries
\* whose role is user, bot, assistant or system and whose text is a string,
\* with bot relabelled assistant, every other role kept and content equal
\* to the text; no entry of another role is forwarded.
C13_NormalizeFiltersAndRelabels ==
  chat.stage # "idle" =>
    LET K == KeptPositions(chat.raw)
    IN  /\ Len(chat.normalized) = Cardinality(K)
        /\ \A j \in 1..Len(chat.normalized) :
             LET m == chat.raw.items[NthOf(K, j)]
             IN  /\ chat.normalized[j].content = m.text
                 /\ chat.normalized[j].role =
                      (IF m.role = "bot" THEN "assistant" ELSE m.role)
                 /\ chat.normalized[j].role \in {"user", "assistant", "system"}

C13_Witness ==
  /\ chat.stage # "idle"
  /\ chat.raw.isArray
  /\ Len(chat.raw.items) = 2
  /\ chat.raw.items[1].role = "tool"
  /\ chat.raw.items[1].textIsString
  /\ chat.raw.items[2].role = "bot"
  /\ chat.normalized = << [role |-> "assistant", content |-> <<"h", "i">>] >>

\* the endpoint and the credential of the adapter named a
AdapterUrl(a) ==
  IF a = "gemini"
    THEN "https://generativelanguage.googleapis.com/v1beta/models/"
    ELSE "https://api.openai.com/v1/chat/completions"

\* C14: a request with something to forward is handled by the Gemini
\* adapter when its provider value is exactly "gemini" and by the OpenAI
\* adapter for every other value (absent, unknown, not a string); it is
\* never answered 400.
C14_PermissiveRouting ==
  (chat.stage # "idle" /\ ~NothingToForward(chat.raw)) =>
    LET expected == IF chat.provider = "gemini" THEN "gemini" ELSE "openai"
    IN  /\ chat.adapter = expected
        /\ \A i \in 1..Len(chat.fetches) :
             chat.fetches[i].url = AdapterUrl(expected)
        /\ \A i \in 1..Len(chat.responses) : chat.responses[i].status # 400
        /\ (chat.stage = "responded" /\ chat.fetches = <<>>) =>
             chat.responses[1].value =
               <<(IF expected = "gemini" THEN "GEMINI_API_KEY"
                                         ELSE "OPENAI_API_KEY") \o " not set">>

C14_Witness ==
  /\ chat.stage = "awaiting"
  /\ chat.provider = "claude"
  /\ chat.adapter = "openai"
  /\ Len(chat.fetches) = 1
  /\ chat.fetches[1].url = "https://api.openai.com/v1/chat/completions"

\* the number of provider fetches the request being handled calls for
ExpectedFetches ==
  IF ~NothingToForward(chat.raw) /\ env[SelectedKeyName] \notin {Absent, ""}
    THEN 1 ELSE 0

\* the fetches made for the request are those it calls for, to the endpoint
\* of the adapter its provider value selects
FetchesAsExpected ==
  chat.stage # "idle" =>
    /\ Len(chat.fetches) = ExpectedFetches
    /\ \A i \in 1..Len(chat.fetches) :
         chat.fetches[i].url =
           AdapterUrl(IF chat.provider = "gemini" THEN "gemini" ELSE "openai")

\* C17: a request makes exactly one provider fetch when its normalized list
\* is not empty and the selected credential is set, and none otherwise; when
\* the fetch settles the request is answered at once, with no further fetch,
\* and a transport failure or non-2xx response is answered 500.
C17_AtMostOneProviderCall ==
  [][/\ FetchesAsExpected'
     /\ chat.stage = "awaiting" =>
          /\ chat'.stage = "responded"
          /\ chat'.fetches = chat.fetches
          /\ Len(chat'.responses) = 1
          /\ chat'.upstream.kind \in {"reject", "nonok"} =>
               (chat'.responses[1].status = 500 /\ chat'.responses[1].kind = "error")
    ]_vars

C17_Witness ==
  /\ chat.stage = "responded"
  /\ chat.upstream.kind = "reject"
  /\ Len(chat.fetches) = 1
  /\ chat.responses[1].status = 500

\* C18: the Gemini adapter sends one content per normalized message, in
\* order, with assistant relabelled model, system relabelled user, user
\* kept, and the message's content as its single text part; the OpenAI
\* adapter sends the normalized list as it is, with roles user, assistant
\* and system.
C18_AdapterPayloads ==
  \A i \in 1..Len(chat.fetches) :
    LET payload == chat.fetches[i].payload
        sent    == chat.normalized
    IN  IF chat.fetches[i].url = AdapterUrl("gemini")
          THEN /\ Len(payload) = Len(sent)
               /\ \A j \in 1..Len(sent) :
                    /\ payload[j].role =
                         (CASE sent[j].role = "assistant" -> "model"
                            [] sent[j].role = "system"    -> "user"
                            [] sent[j].role = "user"      -> "user")
                    /\ payload[j].parts = << [text |-> sent[j].content] >>
          ELSE /\ payload = sent
               /\ \A j \in 1..Len(payload) :
                    payload[j].role \in {"user", "assistant", "system"}

C18_Witness ==
  /\ chat.stage = "awaiting"
  /\ chat.adapter = "gemini"
  /\ Len(chat.normalized) = 2
  /\ chat.normalized[1].role = "system"
  /\ chat.normalized[2].role = "assistant"
  /\ chat.fetches[1].payload[1].role = "user"
  /\ chat.fetches[1].payload[2].role = "model"

\* C15: the responder asked `echo hello world!` replies exactly
\* `hello world`.
C15_EchoHelloWorld ==
  (/\ asked = <<"e", "c", "h", "o", " ", "h", "e", "l", "l", "o", " ",
               "w", "o", "r", "l", "d", "!">>
   /\ answer # NoAnswer)
    => answer = <<"h", "e", "l", "l", "o", " ", "w", "o", "r", "l", "d">>

Clarification == <<"Could you clarify that?">>

\* punctuation characters of ASCII
Punctuation ==
  {"!", "#", "$", "%", "&", "'", "(", ")", "*", "+", ",", "-", ".", "/",
   ":", ";", "<", "=", ">", "?", "@", "[", "]", "^", "_", "{", "|", "}",
   "~"}

\* a text that is empty, or holds only whitespace and punctuation
BlankOrPunctuationOnly(s) ==
  \A i \in 1..Len(s) : s[i] \in Whitespace \cup Punctuation

\* the rules in their order, 1 (empty after normalization) to 8 (fallback)
RuleApplies(r, t) ==
  CASE r = 1 -> t = <<>>
    [] r = 2 -> MatchesGreeting(t)
    [] r = 3 -> MatchesHelp(t)
    [] r = 4 -> MatchesTime(t)
    [] r = 5 -> MatchesDate(t)
    [] r = 6 -> MatchesJoke(t)
    [] r = 7 -> EchoStarts(t) # {}
    [] r = 8 -> TRUE

RuleReply(r, text, now) ==
  CASE r = 1 -> Clarification
    [] r = 2 -> <<"Hello! How can I help you today?">>
    [] r = 3 -> <<"I can greet, tell the time/date, echo text, or tell a joke. Try 'time', 'date', 'echo your text', or 'joke'.">>
    [] r = 4 -> <<"The current time is ">> \o now.time \o <<".">>
    [] r = 5 -> <<"Today is ">> \o now.date \o <<".">>
    [] r = 6 -> <<"Why do programmers prefer dark mode? Because light attracts bugs.">>
    [] r = 7 -> EchoCapture(normalize(text))
    [] r = 8 -> <<"You said: \"">> \o text \o <<"\". I'm a simple demo bot.">>

\* the reply is that of the earliest rule the normalized text satisfies
FirstMatchWins ==
  answer # NoAnswer =>
    LET t     == normalize(asked)
        first == CHOOSE r \in 1..8 :
                   RuleApplies(r, t) /\ \A q \in 1..(r - 1) : ~RuleApplies(q, t)
    IN  answer = RuleReply(first, asked, askedAt)

\* C16: the reply is that of the earliest rule, in the order clarification,
\* greeting, help, time, date/day, joke/funny, echo, fallback, that the
\* text satisfies, and every empty, whitespace-only or punctuation-only
\* text is answered "Could you clarify that?".
C16_FirstMatchAndClarification ==
  /\ FirstMatchWins
  /\ (answer # NoAnswer /\ BlankOrPunctuationOnly(asked))
       => answer = Clarification

\* C19: the conversation starts with the bot greeting and no two
\* consecutive messages have the same role.
C19_RolesAlternate ==
  /\ messages[1] = InitialMessages[1]
  /\ \A i \in 1..(Len(messages) - 1) : messages[i].role # messages[i + 1].role

C19_Witness ==
  /\ Len(messages) = 5
  /\ \E c \in CompIds : comps[c].outcome.kind = "reject"
  /\ \E c \in Discarded : comps[c].provider # provider

\* the ids a user message can have
TurnIds == 2..(2 * MaxTurns + 1)

\* the computations started for the user message with id t
CompsOfTurn(t) == {c \in CompIds : comps[c].turn = t}

\* the bot messages appended for the user message with id t
RepliesToTurn(t) ==
  {i \in 1..Len(messages) :
     producedBy[i] # 0 /\ comps[producedBy[i]].turn = t}

\* C20: a change of the selected provider while a reply is pending cancels
\* the computation in flight and starts one for the same user message with
\* the newly selected provider and the same history; a user message gets at
\* most one bot message, appended by a computation started with the
\* provider selected at that moment, and the last user message, once its
\* computation was restarted, eventually gets its bot message.
C20_ProviderChangeRestartsReply ==
  /\ [][/\ (provider' # provider /\ isTyping) =>
             /\ cleanup # 0
             /\ comps[cleanup].status = "running"
             /\ ~comps[cleanup].cancelled
             /\ comps'[cleanup].cancelled
             /\ Len(comps') = Len(comps) + 1
             /\ cleanup' = Len(comps')
             /\ comps'[cleanup'].turn = comps[cleanup].turn
             /\ comps'[cleanup'].turn = LastMessage.id
             /\ comps'[cleanup'].provider = provider'
             /\ comps'[cleanup'].history = comps[cleanup].history
             /\ comps'[cleanup'].status = "running"
             /\ ~comps'[cleanup'].cancelled
             /\ messages' = messages
        /\ (/\ variant = "llm"
            /\ Len(messages') > Len(messages)
            /\ messages'[Len(messages')].role = "bot") =>
             /\ producedBy'[Len(messages')] \in CompIds
             /\ comps[producedBy'[Len(messages')]].provider = provider
       ]_vars
  /\ [](\A t \in TurnIds : Cardinality(RepliesToTurn(t)) <= 1)
  /\ (/\ LastMessage.role = "user"
      /\ Cardinality(CompsOfTurn(LastMessage.id)) >= 2)
       ~> (/\ LastMessage.role = "bot"
           /\ Cardinality(RepliesToTurn(messages[Len(messages) - 1].id)) = 1)

C20_Witness ==
  /\ LastMessage.role = "bot"
  /\ producedBy[Len(messages)] # 0
  /\ comps[producedBy[Len(messages)]].provider = "gemini"
  /\ \E d \in Discarded :
       /\ comps[d].turn = comps[producedBy[Len(messages)]].turn
       /\ comps[d].provider = "openai"

====
